---- MODULE Spec2Model ----
(***************************************************************************)
(* Model of the number acquisition and SMS-code monitoring engine of      *)
(* src/marketplace_gui.py (class SMSMarketplace).                          *)
(*                                                                         *)
(* Threads: the Tk main thread runs the handlers (one handler at a time;   *)
(* a modal dialog inside a handler runs a nested event loop that still     *)
(* dispatches root.after callbacks), one worker thread per purchase run    *)
(* (process_items) and one worker thread per Start of the SMS monitoring   *)
(* (monitoring_worker).  Workers talk to the main thread only through     *)
(* root.after(0, ...), modelled by after_queue.                            *)
(*                                                                         *)
(* Money is counted in whole units.  The wallet methods (get_balance,      *)
(* spend, deposit) are not defined by the WalletManager stand-in of the    *)
(* source file; they are modelled from the Ledger of the specification.    *)
(***************************************************************************)
EXTENDS Integers, Sequences, FiniteSets, TLC

\* ---------------------------------------------------------------- bounds
NumListings == 2
MaxPrice == 2
MaxInitBalance == 2
MaxBalance == 6
MaxTopup == 1
MaxRuns == 1
MaxOwned == 2
MaxAct == 1
MaxMonThreads == 2
MaxCodes == 2
NumCodes == 1
MaxTime == 1

MaxCallers == 2
MaxLoops == 2
MaxInterval == 2
MaxBackups == 3
\* the clock of the login, in ticks: how long a lockout lasts, after how
\* many ticks timedelta.seconds starts again at 0, and where the clock stops
LockoutTime == 2
DayLength == 4
MaxClock == 5
MaxLogins == 6

\* ------------------------------------------------------ program constants
TopupExtra == 5
\* float(self.poll_interval_var.get() or 5)
DefaultPoll == 5
\* self.max_attempts = 5
MaxAttempts == 5
\* for item in filtered_data[:100]
TreeLimit == 100
\* best_deals = sorted(...)[:10]
BestDeals == 10

Listings == 1..NumListings
Prices == 1..MaxPrice
ActIds == 1..MaxAct
RunIds == 1..MaxRuns
\* the statuses the numbers tab knows; the program itself writes the first
\* three, "expired" reaches it through owned_numbers.json
Statuses == {"active", "telegram_ready", "used", "expired"}
MonIds == 1..MaxMonThreads
\* texts of the poll interval entry: the initial "5", cleared, another number
PollEntries == {"", "2", "5"}
\* values of ALLOW_TELEGRAM_LOGOUT; "unset" when the variable is not set
EnvValues == {"unset", "0", "1", "true"}
Callers == 1..MaxCallers
Codes == 1..NumCodes
Times == 0..MaxTime

\* 'last_used': 'Never'; a time stamp otherwise
Never == 0 - 1

VARIABLES
    providers,          \* self.providers: listing id -> price
    cart,               \* self.cart: sequence of listing ids
    selected_numbers,   \* self.selected_numbers: sequence of listing ids
    balance,            \* self.wallet balance
    owned_numbers,      \* self.owned_numbers: sequence of owned-number records
    numbers_file,       \* owned_numbers.json: the durable copy
    runs,               \* purchase runs: worker thread and progress window
    after_queue,        \* callbacks posted with root.after(0, ...)
    main_pc,            \* "idle", or the modal dialog the main thread is in
    op,                 \* the handler that ran last, for the handlers the
                        \* properties tell apart; Quiet for the others
    now,                \* the clock read by datetime.now()
    monitoring_numbers, \* self.monitoring_numbers: the watched numbers
    monitoring_active,  \* self.monitoring_active
    mon,                \* the monitoring_worker threads
    sms_table,          \* rows of the sms_codes table of the database
    sms_codes,          \* self.sms_codes: the codes on display
    emitted,            \* codes handed to _handle_new_sms_code so far
    poll_interval_var,  \* self.poll_interval_var: the text of the entry
    telethon,           \* whether "from telethon import TelegramClient" works
    log_out,            \* the function TelegramClient.log_out is bound to
    orig_log_out,       \* TelegramClient._orig_log_out, "unset" before
    logout_guard_enabled, \* TelegramClient._logout_guard_enabled
    environ,            \* os.environ.get("ALLOW_TELEGRAM_LOGOUT")
    guard,              \* the callers of enable_logout_protection
    catalog,            \* self.providers as a list: the listing dicts in
                        \* list order, with the fields filter and sort read
    filters,            \* the filter criteria and the sort key (StringVars)
    view,               \* the rows of marketplace_tree: listing ids
    backup_loops,       \* the threads that run SessionGuard._backup_loop
    backup_thread,      \* self._backup_thread: 0 for None, else a thread
    stop_event,         \* self._stop_event
    backups,            \* the rounds of backup_all_sessions taken so far
    last_call,          \* the scheduler call made last
    sched_pc,           \* where the caller of the scheduler stands
    authenticated,      \* AuthenticationManager.authenticated
    username,           \* AuthenticationManager.username, "None" before
    login_attempts,     \* AuthenticationManager.login_attempts
    last_failed_attempt, \* AuthenticationManager.last_failed_attempt
    auth_clock,         \* datetime.now() as the login reads it
    auth_call           \* the authenticate call made last and its result

guardVars == <<telethon, log_out, orig_log_out, logout_guard_enabled,
               environ, guard>>

filterVars == <<catalog, filters, view>>

\* the state of the parts of the program beside the shop and the guard
backupVars == <<backup_loops, backup_thread, stop_event, backups, last_call,
                sched_pc>>

authVars == <<authenticated, username, login_attempts, last_failed_attempt,
              auth_clock, auth_call>>

otherVars == <<filterVars, backupVars, authVars>>

monVars == <<now, monitoring_numbers, monitoring_active, mon, sms_table,
             sms_codes, emitted, poll_interval_var, guardVars, otherVars>>

vars == <<providers, cart, selected_numbers, balance, owned_numbers,
          numbers_file, runs, after_queue, main_pc, op, now,
          monitoring_numbers, monitoring_active, mon, sms_table, sms_codes,
          emitted,
          poll_interval_var, telethon, log_out, orig_log_out,
          logout_guard_enabled, environ, guard, catalog, filters, view,
          backup_loops, backup_thread, stop_event, backups, last_call,
          sched_pc, authenticated, username, login_attempts,
          last_failed_attempt, auth_clock, auth_call>>

\* ---------------------------------------------------------------- helpers
Quiet == "-"

RECURSIVE SumPrices(_, _)
SumPrices(prices, items) ==
    IF items = <<>> THEN 0
    ELSE prices[Head(items)] + SumPrices(prices, Tail(items))

RECURSIVE SumOwnedPrice(_)
SumOwnedPrice(numbers) ==
    IF numbers = <<>> THEN 0
    ELSE Head(numbers).price + SumOwnedPrice(Tail(numbers))

RECURSIVE Reverse(_)
Reverse(s) == IF s = <<>> THEN <<>> ELSE Append(Reverse(Tail(s)), Head(s))

SeqWithout(s, x) == SelectSeq(s, LAMBDA e : e # x)

InSeq(s, x) == \E i \in DOMAIN s : s[i] = x

\* total = sum(item['price'] for item in self.cart)
CartTotal == SumPrices(providers, cart)

OwnedNumber_ready(item, act) ==
    [number |-> item, activation_id |-> act, status |-> "telegram_ready",
     price |-> providers[item], last_used |-> Never]

\* owned_number = {...} built by process_items and _purchase_single_item
OwnedNumber(item, act) ==
    [number |-> item, activation_id |-> act, status |-> "active",
     price |-> providers[item], last_used |-> Never]

NoRun ==
    [pc |-> "none", idx |-> 0, aliased |-> FALSE, snapshot |-> <<>>,
     cur |-> 0, purchased |-> <<>>, spent |-> 0, cart0 |-> <<>>,
     window |-> FALSE]

\* what process_items hands to _show_purchase_results: the purchased
\* numbers; items that failed are kept nowhere
Report(r) == [succeeded |-> runs[r].purchased, failed |-> <<>>]

\* the list object a worker's "for i, item in enumerate(self.cart)" walks
RunList(r) == IF runs[r].aliased THEN cart ELSE runs[r].snapshot

\* a progress window holds the input grab: the main window takes no clicks
GrabHeld == \E r \in RunIds : runs[r].window

UserCanAct == main_pc = "idle" /\ ~GrabHeld

\* self.cart is rebound to a new list: running workers keep the old object
Rebound(rs) ==
    [r \in RunIds |->
        IF rs[r].aliased
        THEN [rs[r] EXCEPT !.aliased = FALSE, !.snapshot = cart]
        ELSE rs[r]]

\* ----------------------------------------------------------------- wallet
SpendRaises_never(bal, amount) == FALSE

\* Ledger.Debit: fails with InsufficientFunds, else deducts
SpendRaises(bal, amount) == amount > bal

wallet_spend_twice(bal, amount) == bal - (amount + amount)

wallet_spend(bal, amount) == bal - amount

\* Ledger.Credit
wallet_deposit(bal, amount) == bal + amount

\* ------------------------------------------------------------------- Init
\* a monitoring_worker thread: not running
NoMon == [pc |-> "none", todo |-> {}, size |-> 0, poll_interval |-> 0]

\* a caller of enable_logout_protection: not in the call, nothing returned
NoCall == [pc |-> "idle", result |-> "none"]

\* session_guard is not in use: Telethon's class as it is imported
InitNoGuard ==
    /\ telethon = FALSE
    /\ log_out = "log_out"
    /\ orig_log_out = "unset"
    /\ logout_guard_enabled = FALSE
    /\ environ = "unset"
    /\ guard = [c \in Callers |-> NoCall]

\* the filter panel as __init__ leaves it: every criterion "all", the price
\* range 0.00 to 5.00, sorted by price
DefaultFilters ==
    [service |-> "all", country |-> <<"all">>, price_min |-> "0.00",
     price_max |-> "5.00", provider |-> "all", sort |-> "price"]

\* the marketplace tab is not looked at
InitNoFilter ==
    /\ catalog = <<>>
    /\ filters = DefaultFilters
    /\ view = <<>>

\* a thread slot no _backup_loop runs in
NoLoop == [pc |-> "none", interval |-> 0, left |-> 0]

\* SessionGuard.__init__: no backup thread, the stop event clear
InitNoBackup ==
    /\ backup_loops = [t \in 1..MaxLoops |-> NoLoop]
    /\ backup_thread = 0
    /\ stop_event = FALSE
    /\ backups = 0
    /\ last_call = "none"
    /\ sched_pc = "idle"

\* no authenticate call made yet
NoAuthCall == [made |-> FALSE, username |-> "", password |-> "",
               result |-> FALSE]

\* AuthenticationManager.__init__
InitNoAuth ==
    /\ authenticated = FALSE
    /\ username = "None"
    /\ login_attempts = 0
    /\ last_failed_attempt = Never
    /\ auth_clock = 0
    /\ auth_call = NoAuthCall

\* ------------------------------------------------------ owned_numbers.json
\* the keys of a number dict whose values are numbers; the others hold text
NumericKeys == {"price"}

\* json.dump of one value: a number is written as its numeral, a text
\* between quotes
JsonEncode(key, value) ==
    IF key \in NumericKeys
    THEN [json |-> "number", text |-> ToString(value)]
    ELSE [json |-> "string", text |-> value]

\* json.load of a numeral
ParseNumber(text) == CHOOSE n \in 0..MaxBalance : ToString(n) = text

\* json.load of one value
JsonDecode(token) ==
    IF token.json = "number" THEN ParseNumber(token.text) ELSE token.text

JsonDump_active(numbers) ==
    LET active == SelectSeq(numbers, LAMBDA n : n.status = "active")
    IN [i \in DOMAIN active |->
           [key \in DOMAIN active[i] |-> JsonEncode(key, active[i][key])]]

\* json.dump(self.owned_numbers, f, indent=2, default=str)
JsonDump(numbers) ==
    [i \in DOMAIN numbers |->
        [key \in DOMAIN numbers[i] |-> JsonEncode(key, numbers[i][key])]]

\* json.load(f)
JsonLoad(text) ==
    [i \in DOMAIN text |->
        [key \in DOMAIN text[i] |-> JsonDecode(text[i][key])]]

\* owned_numbers.json before the program has written it
NoFile == [exists |-> FALSE, text |-> <<>>]

\* _save_owned_numbers: the directory is made and the file written anew
SaveOwnedNumbers(numbers) == [exists |-> TRUE, text |-> JsonDump(numbers)]

\* _load_owned_numbers: the parsed file if it exists, else []
LoadOwnedNumbers(file) == IF file.exists THEN JsonLoad(file.text) ELSE <<>>

\* __init__: nothing watched, monitoring off, no codes
InitMonitoringOff ==
    /\ now = 0
    /\ monitoring_numbers = {}
    /\ monitoring_active = FALSE
    /\ mon = [t \in MonIds |-> NoMon]
    /\ sms_table = <<>>
    /\ sms_codes = <<>>
    /\ emitted = <<>>
    /\ poll_interval_var = "5"

InitPurchase ==
    /\ InitMonitoringOff
    /\ InitNoGuard
    /\ InitNoFilter
    /\ InitNoBackup
    /\ InitNoAuth
    /\ providers \in {p \in [Listings -> Prices] :
                        \A i, j \in Listings : i <= j => p[i] <= p[j]}
    /\ cart = <<>>
    /\ selected_numbers = <<>>
    /\ balance \in 0..MaxInitBalance
    /\ owned_numbers = <<>>
    /\ numbers_file = NoFile
    /\ runs = [r \in RunIds |-> NoRun]
    /\ after_queue = <<>>
    /\ main_pc = "idle"
    /\ op = "init"

\* ------------------------------------------------- cart and wallet handlers
\* click on a marketplace row: toggles the listing in the cart
\* (removal rebinds self.cart, insertion appends to the list in place)
OnItemClick(item) ==
    /\ UserCanAct
    /\ IF InSeq(selected_numbers, item)
       THEN /\ selected_numbers' = SeqWithout(selected_numbers, item)
            /\ cart' = SeqWithout(cart, item)
            /\ runs' = Rebound(runs)
       ELSE /\ selected_numbers' = Append(selected_numbers, item)
            /\ cart' = Append(cart, item)
            /\ runs' = runs
    /\ op' = Quiet
    /\ UNCHANGED <<providers, balance, owned_numbers, numbers_file,
                   after_queue, main_pc>>
    /\ UNCHANGED monVars

\* "Clear" button, confirmed: self.cart.clear() empties the list in place
ClearCart ==
    /\ UserCanAct
    /\ cart # <<>>
    /\ cart' = <<>>
    /\ selected_numbers' = <<>>
    /\ op' = Quiet
    /\ UNCHANGED <<providers, balance, owned_numbers, numbers_file, runs,
                   after_queue, main_pc>>
    /\ UNCHANGED monVars

\* a top-up button, confirmed
QuickTopup(amount) ==
    /\ UserCanAct
    /\ balance + amount <= MaxBalance
    /\ balance' = wallet_deposit(balance, amount)
    /\ op' = "_quick_topup"
    /\ UNCHANGED <<providers, cart, selected_numbers, owned_numbers,
                   numbers_file, runs, after_queue, main_pc>>
    /\ UNCHANGED monVars

TopupAmount_short(bal, total) == total - bal

\* shortage = total - balance; the top-up offered is shortage + 5
TopupAmount(bal, total) == (total - bal) + TopupExtra

CheckoutShort_never(bal, total) == FALSE

\* the affordability test of _checkout
CheckoutShort(bal, total) == bal < total

\* "Checkout" button.  Short of funds: offers a top-up of shortage + 5 and
\* returns.  Otherwise opens the "Confirm Purchase" dialog.
Checkout ==
    /\ UserCanAct
    /\ cart # <<>>
    /\ IF CheckoutShort(balance, CartTotal)
       THEN /\ \E topup \in BOOLEAN :
                 IF topup
                 THEN /\ CartTotal + TopupExtra <= MaxBalance
                      /\ balance' = wallet_deposit(balance,
                                        TopupAmount(balance, CartTotal))
                      /\ op' = "_checkout:topup"
                 ELSE /\ balance' = balance
                      /\ op' = "_checkout:insufficient"
            /\ main_pc' = main_pc
       ELSE /\ main_pc' = "confirm_purchase"
            /\ balance' = balance
            /\ op' = "_checkout:confirm"
    /\ UNCHANGED <<providers, cart, selected_numbers, owned_numbers,
                   numbers_file, runs, after_queue>>
    /\ UNCHANGED monVars

\* _process_purchase: debit the total, open the progress window, start
\* the worker thread.  A failing debit is caught and reported.
ProcessPurchase ==
    IF SpendRaises(balance, CartTotal)
    THEN /\ op' = "_process_purchase:failed"
         /\ UNCHANGED <<balance, runs>>
    ELSE \E r \in RunIds :
            /\ runs[r].pc = "none"
            /\ \A q \in RunIds : q < r => runs[q].pc # "none"
            /\ balance' = wallet_spend(balance, CartTotal)
            /\ runs' = [runs EXCEPT ![r] =
                          [NoRun EXCEPT !.pc = "next", !.aliased = TRUE,
                                        !.spent = CartTotal, !.cart0 = cart,
                                        !.window = TRUE]]
            /\ op' = "_process_purchase"

\* answer to the "Confirm Purchase" dialog
ConfirmPurchase ==
    /\ main_pc = "confirm_purchase"
    /\ main_pc' = "idle"
    /\ \/ ProcessPurchase
       \/ /\ op' = "_checkout:declined"
          /\ UNCHANGED <<balance, runs>>
    /\ UNCHANGED <<providers, cart, selected_numbers, owned_numbers,
                   numbers_file, after_queue>>
    /\ UNCHANGED monVars

\* double click on a marketplace row, confirmed: _purchase_single_item
PurchaseSingleItem(item) ==
    /\ UserCanAct
    /\ IF balance < providers[item] \/ SpendRaises(balance, providers[item])
       THEN /\ op' = Quiet
            /\ UNCHANGED <<balance, owned_numbers, numbers_file>>
       ELSE /\ Len(owned_numbers) < MaxOwned
            /\ \E act \in ActIds :
                 /\ balance' = wallet_spend(balance, providers[item])
                 /\ owned_numbers' =
                        Append(owned_numbers, OwnedNumber(item, act))
                 /\ numbers_file' = SaveOwnedNumbers(owned_numbers')
            /\ op' = "_purchase_single_item"
    /\ UNCHANGED <<providers, cart, selected_numbers, runs, after_queue,
                   main_pc>>
    /\ UNCHANGED monVars

\* _refresh_marketplace (the later definition of the class, run by the
\* 30 s timer and the Refresh button): re-prices the first 20 listings in
\* place, each by a factor in [0.9, 1.1], rounded
Repriced(p) == {q \in Prices : q >= p - 1 /\ q <= p + 1}

RefreshMarketplace ==
    /\ \E np \in [Listings -> Prices] :
          /\ \A i \in Listings : np[i] \in Repriced(providers[i])
          /\ np # providers
          /\ providers' = np
    /\ op' = Quiet
    /\ UNCHANGED <<cart, selected_numbers, balance, owned_numbers,
                   numbers_file, runs, after_queue, main_pc>>
    /\ UNCHANGED monVars

\* ------------------------------------------- purchase worker: process_items
\* the for loop of process_items asks its list iterator for the next item
WorkerNext(r) ==
    /\ runs[r].pc = "next"
    /\ IF runs[r].idx < Len(RunList(r))
       THEN runs' = [runs EXCEPT ![r].cur = RunList(r)[runs[r].idx + 1],
                                 ![r].idx = runs[r].idx + 1,
                                 ![r].pc = "item"]
       ELSE runs' = [runs EXCEPT ![r].pc = "finish"]
    /\ op' = Quiet
    /\ UNCHANGED <<providers, cart, selected_numbers, balance, owned_numbers,
                   numbers_file, after_queue, main_pc>>
    /\ UNCHANGED monVars

\* progress = int((i + 1) / len(self.cart) * 100)
Progress(done, n) == (done * 100) \div n

\* loop body: post the progress, then the simulated acquisition, which
\* appends the new number to purchased and to self.owned_numbers when it
\* succeeds and does nothing at all when it fails
WorkerItem(r) ==
    /\ runs[r].pc = "item"
    /\ IF Len(cart) = 0
       THEN \* ZeroDivisionError ends the thread
            /\ runs' = [runs EXCEPT ![r].pc = "crashed"]
            /\ op' = Quiet
            /\ UNCHANGED <<owned_numbers, after_queue>>
       ELSE /\ after_queue' = Append(after_queue,
                  [type |-> "progress", run |-> r,
                   p |-> Progress(runs[r].idx, Len(cart))])
            /\ \E ok \in BOOLEAN :
                 IF ok
                 THEN /\ Len(owned_numbers) < MaxOwned
                      /\ \E act \in ActIds :
                           LET n == OwnedNumber(runs[r].cur, act) IN
                           /\ owned_numbers' = Append(owned_numbers, n)
                           /\ runs' = [runs EXCEPT
                                  ![r].purchased = Append(@, n),
                                  ![r].pc = "next"]
                      /\ op' = Quiet
                 ELSE /\ owned_numbers' = owned_numbers
                      /\ runs' = [runs EXCEPT ![r].pc = "next"]
                      /\ op' = Quiet
    /\ UNCHANGED <<providers, cart, selected_numbers, balance,
                   numbers_file, main_pc>>
    /\ UNCHANGED monVars

\* after the loop: save when something was purchased, post the results
WorkerFinish(r) ==
    /\ runs[r].pc = "finish"
    /\ numbers_file' = IF runs[r].purchased # <<>>
                       THEN SaveOwnedNumbers(owned_numbers)
                       ELSE numbers_file
    /\ after_queue' = Append(after_queue,
                         [type |-> "results", run |-> r, p |-> 0])
    /\ runs' = [runs EXCEPT ![r].pc = "done"]
    /\ op' = Quiet
    /\ UNCHANGED <<providers, cart, selected_numbers, balance, owned_numbers,
                   main_pc>>
    /\ UNCHANGED monVars

\* ------------------------------------------------ main loop: after callbacks
\* _update_progress(progress_window, p)
UpdateProgress(r, p) ==
    /\ runs' = runs
    /\ op' = Quiet
    /\ UNCHANGED <<cart, selected_numbers>>

\* _show_purchase_results(purchased, progress_window): closes the progress
\* window, clears the cart in place and lists the purchased numbers; the
\* run is over and its slot is free again
ShowPurchaseResults(r) ==
    /\ runs' = [runs EXCEPT ![r] = NoRun]
    /\ cart' = <<>>
    /\ selected_numbers' = <<>>
    /\ op' = Quiet

DispatchPurchase ==
    /\ after_queue # <<>>
    /\ Head(after_queue).type \in {"progress", "results"}
    /\ after_queue' = Tail(after_queue)
    /\ LET e == Head(after_queue) IN
         IF e.type = "progress" THEN UpdateProgress(e.run, e.p)
         ELSE ShowPurchaseResults(e.run)
    /\ UNCHANGED <<providers, balance, owned_numbers, numbers_file, main_pc>>
    /\ UNCHANGED monVars

\* the user closes a progress window, which releases its input grab
CloseProgressWindow(r) ==
    /\ main_pc = "idle"
    /\ runs[r].window
    /\ runs' = [runs EXCEPT ![r].window = FALSE]
    /\ op' = Quiet
    /\ UNCHANGED <<providers, cart, selected_numbers, balance, owned_numbers,
                   numbers_file, after_queue, main_pc>>
    /\ UNCHANGED monVars

\* The purchase path while every progress window stays open until its
\* results arrive (its grab keeps the user off the main window meanwhile).
NextPurchase ==
    \/ \E item \in Listings : OnItemClick(item)
    \/ ClearCart
    \/ \E amount \in 1..MaxTopup : QuickTopup(amount)
    \/ Checkout
    \/ ConfirmPurchase
    \/ \E item \in Listings : PurchaseSingleItem(item)
    \/ \E r \in RunIds : WorkerNext(r)
    \/ \E r \in RunIds : WorkerItem(r)
    \/ \E r \in RunIds : WorkerFinish(r)
    \/ DispatchPurchase

SpecPurchase == InitPurchase /\ [][NextPurchase]_vars

\* The purchase path with progress windows the user may close, so that
\* top-ups, single purchases and further checkouts run while a cart's worker
\* is busy; the wallet opens with its opening balance, the catalog with
\* the cheapest listing at the lowest price and the others one step dearer.
InitLedger ==
    /\ InitPurchase
    /\ balance = MaxInitBalance
    /\ \A i \in Listings : providers[i] = IF i = 1 THEN 1 ELSE 2

NextLedger ==
    \/ \E item \in Listings : OnItemClick(item)
    \/ \E amount \in 1..MaxTopup : QuickTopup(amount)
    \/ Checkout
    \/ ConfirmPurchase
    \/ \E item \in Listings : PurchaseSingleItem(item)
    \/ \E r \in RunIds : WorkerNext(r)
    \/ \E r \in RunIds : WorkerItem(r)
    \/ \E r \in RunIds : WorkerFinish(r)
    \/ DispatchPurchase
    \/ \E r \in RunIds : CloseProgressWindow(r)

SpecLedger == InitLedger /\ [][NextLedger]_vars

\* The purchase path with the 30 s re-pricing timer, which also runs while
\* the "Confirm Purchase" dialog is open
NextReprice ==
    \/ NextPurchase
    \/ RefreshMarketplace

SpecReprice == InitPurchase /\ [][NextReprice]_vars

\* --------------------------------------------------------------- inventory
\* owned_numbers.json as earlier sessions of the program left it
SavedNumbers ==
    {n \in [number : Listings, activation_id : ActIds, status : Statuses,
            price : Prices, last_used : {Never, 0}] :
        n.status = "active" <=> n.last_used = Never}

SavedLists ==
    UNION {[1..k -> SavedNumbers] : k \in 0..MaxOwned}

\* __init__ with self.owned_numbers = self._load_owned_numbers()
InitInventory ==
    /\ InitMonitoringOff
    /\ InitNoGuard
    /\ InitNoFilter
    /\ InitNoBackup
    /\ InitNoAuth
    /\ providers \in {p \in [Listings -> Prices] :
                        \A i, j \in Listings : i <= j => p[i] <= p[j]}
    /\ cart = <<>>
    /\ selected_numbers = <<>>
    /\ balance \in 0..MaxInitBalance
    /\ numbers_file \in {NoFile} \cup
                        {SaveOwnedNumbers(numbers) : numbers \in SavedLists}
    /\ owned_numbers = LoadOwnedNumbers(numbers_file)
    /\ runs = [r \in RunIds |-> NoRun]
    /\ after_queue = <<>>
    /\ main_pc = "idle"
    /\ op = "init"

\* number['number'] == number_data['number'] and
\* number['activation_id'] == number_data['activation_id']
SameNumber(n, d) ==
    n.number = d.number /\ n.activation_id = d.activation_id

\* for i, number in enumerate(self.owned_numbers): if ...: ...; break
RECURSIVE FirstMatch(_, _, _)
FirstMatch(numbers, d, i) ==
    IF i > Len(numbers) THEN 0
    ELSE IF SameNumber(numbers[i], d) THEN i
    ELSE FirstMatch(numbers, d, i + 1)

\* the first matching entry gets the status asked for, whatever its status is
SetStatus(numbers, d, status, t) ==
    LET i == FirstMatch(numbers, d, 1) IN
    IF i = 0 THEN numbers
    ELSE [numbers EXCEPT ![i].status = status,
                         ![i].last_used = t]

\* _mark_number_telegram_ready(number_data)
MarkNumberTelegramReady(d) ==
    /\ owned_numbers' = SetStatus(owned_numbers, d, "telegram_ready", now)
    /\ numbers_file' = SaveOwnedNumbers(owned_numbers')

\* "Mark as Telegram Ready" on the selected number
MarkTelegramReady(i) ==
    /\ UserCanAct
    /\ i \in DOMAIN owned_numbers
    /\ MarkNumberTelegramReady(owned_numbers[i])
    /\ op' = "_mark_telegram_ready"
    /\ UNCHANGED <<providers, cart, selected_numbers, balance, runs,
                   after_queue, main_pc>>
    /\ UNCHANGED monVars

\* "Mark as Used" on the selected number
MarkSelectedUsed(i) ==
    /\ UserCanAct
    /\ i \in DOMAIN owned_numbers
    /\ owned_numbers' = SetStatus(owned_numbers, owned_numbers[i], "used", now)
    /\ numbers_file' = SaveOwnedNumbers(owned_numbers')
    /\ op' = "_mark_selected_used"
    /\ UNCHANGED <<providers, cart, selected_numbers, balance, runs,
                   after_queue, main_pc>>
    /\ UNCHANGED monVars

\* "Create Telegram Account" on the selected number: confirmed and the
\* browser opened, the number is marked; declined or failed, nothing changes
CreateTelegramAccount(i) ==
    /\ UserCanAct
    /\ i \in DOMAIN owned_numbers
    /\ \E opened \in BOOLEAN :
         IF opened
         THEN /\ MarkNumberTelegramReady(owned_numbers[i])
              /\ op' = "_create_telegram_account"
         ELSE /\ op' = Quiet
              /\ UNCHANGED <<owned_numbers, numbers_file>>
    /\ UNCHANGED <<providers, cart, selected_numbers, balance, runs,
                   after_queue, main_pc>>
    /\ UNCHANGED monVars

\* "Delete" on the selected number, confirmed: every entry with its number
\* and activation id goes
DeleteSelectedNumber(i) ==
    /\ UserCanAct
    /\ i \in DOMAIN owned_numbers
    /\ owned_numbers' = SelectSeq(owned_numbers,
                           LAMBDA n : ~SameNumber(n, owned_numbers[i]))
    /\ numbers_file' = SaveOwnedNumbers(owned_numbers')
    /\ op' = "_delete_selected_number"
    /\ UNCHANGED <<providers, cart, selected_numbers, balance, runs,
                   after_queue, main_pc>>
    /\ UNCHANGED monVars

\* "Refresh": self.owned_numbers = self._load_owned_numbers()
RefreshMyNumbers ==
    /\ UserCanAct
    /\ owned_numbers' = LoadOwnedNumbers(numbers_file)
    /\ op' = "_refresh_my_numbers"
    /\ UNCHANGED <<providers, cart, selected_numbers, balance, numbers_file,
                   runs, after_queue, main_pc>>
    /\ UNCHANGED monVars

NextInventory ==
    \/ \E i \in 1..MaxOwned : MarkTelegramReady(i)
    \/ \E i \in 1..MaxOwned : MarkSelectedUsed(i)
    \/ \E i \in 1..MaxOwned : CreateTelegramAccount(i)
    \/ \E i \in 1..MaxOwned : DeleteSelectedNumber(i)
    \/ RefreshMyNumbers
    \/ \E amount \in 1..MaxTopup : QuickTopup(amount)
    \/ \E item \in Listings : PurchaseSingleItem(item)

SpecInventory == InitInventory /\ [][NextInventory]_vars

\* The program from its first start, with no owned_numbers.json yet: carts
\* and single purchases fill the inventory, the numbers tab works on it.
NextStore ==
    \/ NextPurchase
    \/ \E i \in 1..MaxOwned : MarkTelegramReady(i)
    \/ \E i \in 1..MaxOwned : MarkSelectedUsed(i)
    \/ \E i \in 1..MaxOwned : CreateTelegramAccount(i)
    \/ \E i \in 1..MaxOwned : DeleteSelectedNumber(i)
    \/ RefreshMyNumbers

SpecStore == InitPurchase /\ [][NextStore]_vars

\* -------------------------------------------------------------- monitoring
\* the identity the watch set is searched by: number and activation id.
\* monitoring_numbers holds these keys in place of the number dicts, which
\* a Python set cannot hold (set.add of a dict raises TypeError).
NumberKey(n) == <<n.number, n.activation_id>>

\* active_numbers of _add_number_monitoring
WatchableKeys ==
    {NumberKey(owned_numbers[i]) : i \in
        {j \in DOMAIN owned_numbers :
            owned_numbers[j].status \in {"active", "telegram_ready"}}}

\* "Add Number", add_selected: the selected numbers not yet watched join the
\* watch set
AddNumberMonitoring(selected) ==
    /\ UserCanAct
    /\ selected # {}
    /\ selected \subseteq WatchableKeys
    /\ monitoring_numbers' = monitoring_numbers \cup selected
    /\ op' = Quiet
    /\ UNCHANGED <<providers, cart, selected_numbers, balance, owned_numbers,
                   numbers_file, runs, after_queue, main_pc>>
    /\ UNCHANGED <<now, monitoring_active, mon, sms_table, sms_codes,
                   emitted>>
    /\ UNCHANGED <<poll_interval_var, guardVars, otherVars>>

\* "Remove": self.monitoring_numbers.discard(removed_number)
RemoveNumberMonitoring(k) ==
    /\ UserCanAct
    /\ k \in monitoring_numbers
    /\ monitoring_numbers' = monitoring_numbers \ {k}
    /\ op' = Quiet
    /\ UNCHANGED <<providers, cart, selected_numbers, balance, owned_numbers,
                   numbers_file, runs, after_queue, main_pc>>
    /\ UNCHANGED <<now, monitoring_active, mon, sms_table, sms_codes,
                   emitted>>
    /\ UNCHANGED <<poll_interval_var, guardVars, otherVars>>

\* "Start Monitoring": returns when already active or nothing is watched,
\* else sets the flag and starts a new monitoring_worker thread
StartSmsMonitoring ==
    /\ UserCanAct
    /\ IF monitoring_active \/ monitoring_numbers = {}
       THEN UNCHANGED <<monitoring_active, mon>>
       ELSE /\ monitoring_active' = TRUE
            /\ \E t \in MonIds :
                 /\ mon[t].pc = "none"
                 /\ \A u \in MonIds : u < t => mon[u].pc # "none"
                 /\ mon' = [mon EXCEPT ![t].pc = "start"]
    /\ op' = "_start_sms_monitoring"
    /\ UNCHANGED <<providers, cart, selected_numbers, balance, owned_numbers,
                   numbers_file, runs, after_queue, main_pc>>
    /\ UNCHANGED <<now, monitoring_numbers, sms_table, sms_codes, emitted>>
    /\ UNCHANGED <<poll_interval_var, guardVars, otherVars>>

StoppedFlag_toggled(active) == ~active

\* self.monitoring_active.set(False)
StoppedFlag(active) == FALSE

\* "Stop Monitoring": clears the flag; the worker threads are left alone
StopSmsMonitoring ==
    /\ UserCanAct
    /\ monitoring_active' = StoppedFlag(monitoring_active)
    /\ op' = IF monitoring_active THEN "_stop_sms_monitoring"
             ELSE "_stop_sms_monitoring:stopped"
    /\ UNCHANGED <<providers, cart, selected_numbers, balance, owned_numbers,
                   numbers_file, runs, after_queue, main_pc>>
    /\ UNCHANGED <<now, monitoring_numbers, mon, sms_table, sms_codes,
                   emitted>>
    /\ UNCHANGED <<poll_interval_var, guardVars, otherVars>>

\* float(self.poll_interval_var.get() or 5): the text of the entry as a
\* number of seconds, 5 when the entry is empty
PollSeconds(text) ==
    IF text = "" THEN DefaultPoll
    ELSE CASE text = "2" -> 2
           [] text = "5" -> 5

\* monitoring_worker, its first statement: the thread reads the interval
\* into its local poll_interval, before the while loop
MonBegin(t) ==
    /\ mon[t].pc = "start"
    /\ mon' = [mon EXCEPT ![t].pc = "test",
                          ![t].poll_interval = PollSeconds(poll_interval_var)]
    /\ op' = Quiet
    /\ UNCHANGED <<providers, cart, selected_numbers, balance, owned_numbers,
                   numbers_file, runs, after_queue, main_pc>>
    /\ UNCHANGED <<now, monitoring_numbers, monitoring_active, sms_table,
                   sms_codes, emitted>>
    /\ UNCHANGED <<poll_interval_var, guardVars, otherVars>>

\* monitoring_worker, "while self.monitoring_active.get()": enters
\* _check_for_sms_codes, whose for loop starts to walk the watch set, or
\* ends the thread
MonTest(t) ==
    /\ mon[t].pc = "test"
    /\ mon' = [mon EXCEPT ![t] =
                 IF monitoring_active
                 THEN [pc |-> "cycle", todo |-> monitoring_numbers,
                       size |-> Cardinality(monitoring_numbers),
                       poll_interval |-> mon[t].poll_interval]
                 ELSE NoMon]
    /\ op' = Quiet
    /\ UNCHANGED <<providers, cart, selected_numbers, balance, owned_numbers,
                   numbers_file, runs, after_queue, main_pc>>
    /\ UNCHANGED <<now, monitoring_numbers, monitoring_active, sms_table,
                   sms_codes, emitted>>
    /\ UNCHANGED <<poll_interval_var, guardVars, otherVars>>

\* what _fetch_sms_codes_from_provider returns for a watched number: the
\* provider's codes, each stamped 'received_at': datetime.now()
FormattedCode(k, c) ==
    [number |-> k[1], activation_id |-> k[2], code |-> c,
     received_at |-> now]

FetchResults(k) ==
    {<<>>} \cup {<<FormattedCode(k, c)>> : c \in Codes}

\* one turn of the for loop of _check_for_sms_codes.  The set iterator
\* raises RuntimeError when the watch set changed size: the worker logs it
\* and sleeps.  Otherwise the next number is fetched and every code is
\* inserted into the table (a failing insert is logged and skipped), posted
\* to the display and posted as a notification.  Numbers that joined the
\* watch set during the walk wait for the next one.
MonCheck(t) ==
    /\ mon[t].pc = "cycle"
    /\ LET left == mon[t].todo \cap monitoring_numbers IN
       IF Cardinality(monitoring_numbers) # mon[t].size \/ left = {}
       THEN /\ mon' = [mon EXCEPT ![t] =
                         [NoMon EXCEPT !.pc = "sleep",
                                       !.poll_interval =
                                           mon[t].poll_interval]]
            /\ UNCHANGED <<after_queue, sms_table, emitted>>
       ELSE \E k \in left : \E codes \in FetchResults(k) :
            /\ mon' = [mon EXCEPT ![t].todo = left \ {k}]
            /\ IF codes = <<>>
               THEN UNCHANGED <<after_queue, sms_table, emitted>>
               ELSE /\ Len(emitted) < MaxCodes
                    /\ \E stored \in BOOLEAN :
                         sms_table' = IF stored
                                      THEN Append(sms_table, codes[1])
                                      ELSE sms_table
                    /\ after_queue' = after_queue \o
                         <<[type |-> "update_gui", code |-> codes[1]],
                           [type |-> "handle_notification",
                            code |-> codes[1]]>>
                    /\ emitted' = Append(emitted, codes[1])
    /\ op' = Quiet
    /\ UNCHANGED <<providers, cart, selected_numbers, balance, owned_numbers,
                   numbers_file, runs, main_pc>>
    /\ UNCHANGED <<now, monitoring_numbers, monitoring_active, sms_codes>>
    /\ UNCHANGED <<poll_interval_var, guardVars, otherVars>>

\* time.sleep(...) is over
MonWake(t) ==
    /\ mon[t].pc = "sleep"
    /\ mon' = [mon EXCEPT ![t].pc = "test"]
    /\ op' = Quiet
    /\ UNCHANGED <<providers, cart, selected_numbers, balance, owned_numbers,
                   numbers_file, runs, after_queue, main_pc>>
    /\ UNCHANGED <<now, monitoring_numbers, monitoring_active, sms_table,
                   sms_codes, emitted>>
    /\ UNCHANGED <<poll_interval_var, guardVars, otherVars>>

DispatchMonitor_marking ==
    /\ after_queue # <<>>
    /\ Head(after_queue).type \in {"update_gui", "handle_notification"}
    /\ sms_codes' = IF Head(after_queue).type = "update_gui"
                    THEN Append(sms_codes, Head(after_queue).code)
                    ELSE sms_codes
    /\ owned_numbers' =
          [i \in DOMAIN owned_numbers |->
              IF owned_numbers[i].number = Head(after_queue).code.number
              THEN [owned_numbers[i] EXCEPT !.status = "used"]
              ELSE owned_numbers[i]]
    /\ after_queue' = Tail(after_queue)
    /\ op' = Quiet
    /\ UNCHANGED <<providers, cart, selected_numbers, balance,
                   numbers_file, runs, main_pc>>
    /\ UNCHANGED <<now, monitoring_numbers, monitoring_active, mon,
                   sms_table, emitted>>
    /\ UNCHANGED <<poll_interval_var, guardVars, otherVars>>

\* the main loop runs a posted update_gui (self.sms_codes.append) or a
\* posted handle_notification (clipboard, bell, popup)
DispatchMonitor ==
    /\ after_queue # <<>>
    /\ Head(after_queue).type \in {"update_gui", "handle_notification"}
    /\ sms_codes' = IF Head(after_queue).type = "update_gui"
                    THEN Append(sms_codes, Head(after_queue).code)
                    ELSE sms_codes
    /\ after_queue' = Tail(after_queue)
    /\ op' = Quiet
    /\ UNCHANGED <<providers, cart, selected_numbers, balance, owned_numbers,
                   numbers_file, runs, main_pc>>
    /\ UNCHANGED <<now, monitoring_numbers, monitoring_active, mon,
                   sms_table, emitted>>
    /\ UNCHANGED <<poll_interval_var, guardVars, otherVars>>

\* time passes
Tick ==
    /\ now < MaxTime
    /\ now' = now + 1
    /\ op' = Quiet
    /\ UNCHANGED <<providers, cart, selected_numbers, balance, owned_numbers,
                   numbers_file, runs, after_queue, main_pc>>
    /\ UNCHANGED <<monitoring_numbers, monitoring_active, mon, sms_table,
                   sms_codes, emitted>>
    /\ UNCHANGED <<poll_interval_var, guardVars, otherVars>>

\* The monitoring tab over an inventory loaded from the file.  What
\* monitoring never reads is held at one value: the wallet, the catalog,
\* the prices paid, the order of the numbers; of the statuses one that may
\* be watched and one that may not.
InitMonitor ==
    /\ InitInventory
    /\ balance = 0
    /\ \A i \in Listings : providers[i] = 1
    /\ \A i \in DOMAIN owned_numbers :
          /\ owned_numbers[i].price = 1
          /\ owned_numbers[i].status \in {"active", "used"}
          /\ \A j \in DOMAIN owned_numbers :
                i < j => owned_numbers[i].number < owned_numbers[j].number

NextMonitor ==
    \/ \E selected \in SUBSET (Listings \X ActIds) :
          AddNumberMonitoring(selected)
    \/ \E k \in Listings \X ActIds : RemoveNumberMonitoring(k)
    \/ StartSmsMonitoring
    \/ StopSmsMonitoring
    \/ \E t \in MonIds : MonBegin(t)
    \/ \E t \in MonIds : MonTest(t)
    \/ \E t \in MonIds : MonCheck(t)
    \/ \E t \in MonIds : MonWake(t)
    \/ DispatchMonitor
    \/ Tick

SpecMonitor == InitMonitor /\ [][NextMonitor]_vars

\* The monitoring tab together with the numbers tab's Delete and Refresh
NextWatch ==
    \/ NextMonitor
    \/ \E i \in 1..MaxOwned : DeleteSelectedNumber(i)
    \/ RefreshMyNumbers

\* an inventory of one number, which Delete can take away
InitWatch ==
    /\ InitMonitor
    /\ Len(owned_numbers) = 1

SpecWatch == InitWatch /\ [][NextWatch]_vars

\* response = provider.get_sms_codes(activation_id) does not return: the call
\* is made by the worker itself, in the for loop, and is given no timeout.
\* The worker stays in the call with the rest of its walk unvisited.
MonHang(t) ==
    /\ mon[t].pc = "cycle"
    /\ Cardinality(monitoring_numbers) = mon[t].size
    /\ \E k \in mon[t].todo \cap monitoring_numbers :
         mon' = [mon EXCEPT ![t].pc = "hung",
                            ![t].todo = (mon[t].todo \cap monitoring_numbers)
                                            \ {k}]
    /\ op' = Quiet
    /\ UNCHANGED <<providers, cart, selected_numbers, balance, owned_numbers,
                   numbers_file, runs, after_queue, main_pc>>
    /\ UNCHANGED <<now, monitoring_numbers, monitoring_active, sms_table,
                   sms_codes, emitted>>
    /\ UNCHANGED <<poll_interval_var, guardVars, otherVars>>

\* The monitoring tab with a provider whose answer may never come
NextFetch ==
    \/ NextMonitor
    \/ \E t \in MonIds : MonHang(t)

SpecFetch == InitMonitor /\ [][NextFetch]_vars

\* the user types another interval into the "Poll interval" entry
SetPollInterval(text) ==
    /\ UserCanAct
    /\ text # poll_interval_var
    /\ poll_interval_var' = text
    /\ op' = Quiet
    /\ UNCHANGED <<providers, cart, selected_numbers, balance, owned_numbers,
                   numbers_file, runs, after_queue, main_pc>>
    /\ UNCHANGED <<now, monitoring_numbers, monitoring_active, mon,
                   sms_table, sms_codes, emitted, guardVars, otherVars>>

\* The monitoring tab over an inventory of one number that may be watched
InitPoll ==
    /\ InitMonitor
    /\ Len(owned_numbers) = 1
    /\ owned_numbers[1].status = "active"

NextPoll ==
    \/ NextMonitor
    \/ \E text \in PollEntries : SetPollInterval(text)

SpecPoll == InitPoll /\ [][NextPoll]_vars

\* ----------------------------------------------------------- session guard
\* the marketplace window is not part of session_guard.py: it rests
shopVars == <<providers, cart, selected_numbers, balance, owned_numbers,
              numbers_file, runs, after_queue, main_pc, now,
              monitoring_numbers, monitoring_active, mon, sms_table,
              sms_codes, emitted, poll_interval_var, otherVars>>

\* enable_logout_protection, up to the test of _logout_guard_enabled:
\* returns False when Telethon cannot be imported, True when the guard is
\* already marked enabled
EnableBegin(c) ==
    /\ guard[c].pc = "idle"
    /\ IF ~telethon
       THEN /\ guard' = [guard EXCEPT ![c].result = "False"]
            /\ op' = "enable_logout_protection:False"
       ELSE IF logout_guard_enabled
       THEN /\ guard' = [guard EXCEPT ![c].result = "True"]
            /\ op' = "enable_logout_protection:True"
       ELSE /\ guard' = [guard EXCEPT ![c].pc = "hasattr"]
            /\ op' = Quiet
    /\ UNCHANGED <<telethon, log_out, orig_log_out, logout_guard_enabled,
                   environ>>
    /\ UNCHANGED shopVars

\* if not hasattr(TelegramClient, "_orig_log_out")
EnableHasattr(c) ==
    /\ guard[c].pc = "hasattr"
    /\ guard' = [guard EXCEPT ![c].pc = IF orig_log_out = "unset"
                                        THEN "preserve" ELSE "patch"]
    /\ op' = Quiet
    /\ UNCHANGED <<telethon, log_out, orig_log_out, logout_guard_enabled,
                   environ>>
    /\ UNCHANGED shopVars

\* TelegramClient._orig_log_out = TelegramClient.log_out
EnablePreserve(c) ==
    /\ guard[c].pc = "preserve"
    /\ orig_log_out' = log_out
    /\ guard' = [guard EXCEPT ![c].pc = "patch"]
    /\ op' = Quiet
    /\ UNCHANGED <<telethon, log_out, logout_guard_enabled, environ>>
    /\ UNCHANGED shopVars

\* TelegramClient.log_out = guarded_log_out
EnablePatch(c) ==
    /\ guard[c].pc = "patch"
    /\ log_out' = "guarded_log_out"
    /\ guard' = [guard EXCEPT ![c].pc = "flag"]
    /\ op' = Quiet
    /\ UNCHANGED <<telethon, orig_log_out, logout_guard_enabled, environ>>
    /\ UNCHANGED shopVars

\* TelegramClient._logout_guard_enabled = True; return True
EnableFlag(c) ==
    /\ guard[c].pc = "flag"
    /\ logout_guard_enabled' = TRUE
    /\ guard' = [guard EXCEPT ![c] = [pc |-> "idle", result |-> "True"]]
    /\ op' = "enable_logout_protection:True"
    /\ UNCHANGED <<telethon, log_out, orig_log_out, environ>>
    /\ UNCHANGED shopVars

Allow_whenSet(value) == value # "unset"

\* allow = os.environ.get("ALLOW_TELEGRAM_LOGOUT") == "1"
Allow(value) == value = "1"

\* guarded_log_out: raises unless allowed, else calls
\* TelegramClient._orig_log_out, looked up at the call.  Should that
\* attribute hold guarded_log_out itself, the call recurses until Python
\* raises RecursionError.
GuardedLogOut ==
    IF ~Allow(environ) THEN "raised"
    ELSE IF orig_log_out = "log_out" THEN "original" ELSE "raised"

\* a call of TelegramClient.log_out, through whatever the name is bound to
LogOut ==
    /\ telethon
    /\ op' = IF log_out = "log_out" THEN "log_out:original"
             ELSE IF GuardedLogOut = "original" THEN "log_out:original"
             ELSE "log_out:raised"
    /\ UNCHANGED guardVars
    /\ UNCHANGED shopVars

\* client._orig_log_out(), the direct call the module's docstring names
OrigLogOut ==
    /\ telethon
    /\ orig_log_out # "unset"
    /\ op' = IF orig_log_out = "log_out" THEN "_orig_log_out:original"
             ELSE IF GuardedLogOut = "original" THEN "_orig_log_out:original"
             ELSE "_orig_log_out:raised"
    /\ UNCHANGED guardVars
    /\ UNCHANGED shopVars

\* os.environ['ALLOW_TELEGRAM_LOGOUT'] = value, or its removal
SetEnviron(value) ==
    /\ value # environ
    /\ environ' = value
    /\ op' = Quiet
    /\ UNCHANGED <<telethon, log_out, orig_log_out, logout_guard_enabled,
                   guard>>
    /\ UNCHANGED shopVars

\* a process that uses session_guard, with Telethon installed or not, and
\* the variable as the process inherited it
InitGuard ==
    /\ InitMonitoringOff
    /\ InitNoFilter
    /\ InitNoBackup
    /\ InitNoAuth
    /\ providers = [i \in Listings |-> 1]
    /\ cart = <<>>
    /\ selected_numbers = <<>>
    /\ balance = 0
    /\ owned_numbers = <<>>
    /\ numbers_file = NoFile
    /\ runs = [r \in RunIds |-> NoRun]
    /\ after_queue = <<>>
    /\ main_pc = "idle"
    /\ op = "init"
    /\ telethon \in BOOLEAN
    /\ log_out = "log_out"
    /\ orig_log_out = "unset"
    /\ logout_guard_enabled = FALSE
    /\ environ \in EnvValues
    /\ guard = [c \in Callers |-> NoCall]

NextGuard ==
    \/ \E c \in Callers : EnableBegin(c)
    \/ \E c \in Callers : EnableHasattr(c)
    \/ \E c \in Callers : EnablePreserve(c)
    \/ \E c \in Callers : EnablePatch(c)
    \/ \E c \in Callers : EnableFlag(c)
    \/ LogOut
    \/ OrigLogOut
    \/ \E value \in EnvValues : SetEnviron(value)

SpecGuard == InitGuard /\ [][NextGuard]_vars

\* ------------------------------------------------------- filter and sort
Services == {"Telegram", "WhatsApp"}
ProviderNames == {"5SIM", "SMS-Activate"}
\* a country dict; its name is kept word by word, as the filter splits it
Countries ==
    {[flag |-> "CA", name |-> <<"Canada">>],
     [flag |-> "US", name |-> <<"United", "States">>]}
SortKeys == {"price", "success_rate", "speed", "country", "provider"}
\* the sort keys a click on a column heading sets: sort_map
ColumnKeys == {"service", "country", "provider", "price", "success_rate",
               "speed", "quality_score"}
\* texts of the two price entries: numbers, one that float() rejects and
\* one it turns into the float nan
PriceEntries == {"1", "2", "abc", "nan"}

\* value_score before _select_best_deals has written it
NoScore == 0 - 1

\* the label of a country in the combobox: f"{flag} {name}"
CountryLabel(c) == <<c.flag>> \o c.name

\* float(text) raises ValueError
FloatRaises(text) == text \notin {"1", "2", "nan"}

\* float("nan"), which no price equals
NaN == 0 - 1

\* float(text)
Float(text) == CASE text = "1" -> 1
                 [] text = "2" -> 2
                 [] text = "nan" -> NaN

\* a <= b on floats: False as soon as one side is nan
FloatLeq(a, b) == a # NaN /\ b # NaN /\ a <= b

\* country_var.get().split(' ', 1)[1] if ' ' in country_var.get() else the
\* text itself
CountryName(text) == IF Len(text) > 1 THEN Tail(text) ELSE text

\* price_min <= p['price'] <= price_max
PriceInRange(f, price) ==
    FloatLeq(Float(f.price_min), price) /\ FloatLeq(price, Float(f.price_max))

\* _get_filtered_data: starts from self.providers itself and passes it
\* through one list comprehension per active criterion; the price
\* criterion is dropped when either text fails to parse.  aliased tells
\* whether the list returned is still self.providers itself.
GetFilteredData(cat, f) ==
    LET byService  == IF f.service # "all"
                      THEN SelectSeq(cat, LAMBDA p : p.service = f.service)
                      ELSE cat
        byCountry  == IF f.country # <<"all">>
                      THEN SelectSeq(byService,
                               LAMBDA p : p.country.name =
                                              CountryName(f.country))
                      ELSE byService
        priced     == ~(FloatRaises(f.price_min) \/ FloatRaises(f.price_max))
        byPrice    == IF priced
                      THEN SelectSeq(byCountry,
                               LAMBDA p : PriceInRange(f, p.price))
                      ELSE byCountry
        byProvider == IF f.provider # "all"
                      THEN SelectSeq(byPrice,
                               LAMBDA p : p.provider = f.provider)
                      ELSE byPrice
    IN [aliased |-> f.service = "all" /\ f.country = <<"all">> /\ ~priced
                    /\ f.provider = "all",
        items |-> byProvider]

\* the order of the country names and of the provider names as strings
NameRank(name) == IF name = <<"Canada">> THEN 1 ELSE 2

ProviderRank(provider) == IF provider = "5SIM" THEN 1 ELSE 2

\* the key of list.sort in _populate_marketplace; success_rate is sorted
\* with reverse=True, which keeps equal items in their order
SortKey(p, key) ==
    CASE key = "price" -> p.price
      [] key = "success_rate" -> 0 - p.success_rate
      [] key = "speed" -> p.avg_time
      [] key = "country" -> NameRank(p.country.name)
      [] key = "provider" -> ProviderRank(p.provider)

RECURSIVE InsertByKey(_, _, _)
InsertByKey(x, sorted, key) ==
    IF sorted = <<>> THEN <<x>>
    ELSE IF SortKey(x, key) < SortKey(Head(sorted), key)
         THEN <<x>> \o sorted
         ELSE <<Head(sorted)>> \o InsertByKey(x, Tail(sorted), key)

\* list.sort(key=...): a stable sort
RECURSIVE StableSort(_, _)
StableSort(items, key) ==
    IF items = <<>> THEN <<>>
    ELSE InsertByKey(items[Len(items)],
                     StableSort(SubSeq(items, 1, Len(items) - 1), key), key)

\* the if/elif chain of _populate_marketplace: a key without a branch
\* leaves the list as it is
SortedBy(items, key) ==
    IF key \in SortKeys THEN StableSort(items, key) ELSE items

FirstRows(items, n) ==
    SubSeq(items, 1, IF Len(items) < n THEN Len(items) ELSE n)

\* self.providers after _populate_marketplace: filtered_data.sort(...) sorts
\* the list _get_filtered_data returned, which is self.providers itself
\* when no criterion made a copy
PopulatedCatalog(cat, f) ==
    IF GetFilteredData(cat, f).aliased THEN SortedBy(cat, f.sort) ELSE cat

\* the rows _populate_marketplace inserts into the tree: the ids of the
\* first 100 listings of the filtered, sorted list
PopulatedView(cat, f) ==
    LET rows == FirstRows(SortedBy(GetFilteredData(cat, f).items, f.sort),
                          TreeLimit)
    IN [i \in DOMAIN rows |-> rows[i].id]

frameOfFilter == <<balance, owned_numbers, numbers_file, runs, after_queue,
                   main_pc, now, monitoring_numbers, monitoring_active, mon,
                   sms_table, sms_codes, emitted, poll_interval_var,
                   guardVars, backupVars, authVars>>

\* the user changes one criterion or the sort key; the combobox event, or
\* the "Apply Filters" button after a price text, runs _populate_marketplace
ApplyFilters(f) ==
    /\ UserCanAct
    /\ filters' = f
    /\ catalog' = PopulatedCatalog(catalog, f)
    /\ view' = PopulatedView(catalog, f)
    /\ op' = "_populate_marketplace"
    /\ UNCHANGED <<providers, cart, selected_numbers>>
    /\ UNCHANGED frameOfFilter

\* click on a column heading: _sort_by_column sets the sort key of the
\* column and repopulates
SortByColumn(key) ==
    /\ UserCanAct
    /\ filters' = [filters EXCEPT !.sort = key]
    /\ catalog' = PopulatedCatalog(catalog, filters')
    /\ view' = PopulatedView(catalog, filters')
    /\ op' = "_sort_by_column"
    /\ UNCHANGED <<providers, cart, selected_numbers>>
    /\ UNCHANGED frameOfFilter

\* item['value_score'] = item['quality_score'] / max(item['price'], 0.01),
\* in hundredths
ValueScore(p) == (p.quality_score * 100) \div p.price

Scored(cat, ids) ==
    [i \in DOMAIN cat |->
        IF cat[i].id \in ids
        THEN [cat[i] EXCEPT !.value_score = ValueScore(cat[i])]
        ELSE cat[i]]

RECURSIVE InsertByScore(_, _)
InsertByScore(x, sorted) ==
    IF sorted = <<>> THEN <<x>>
    ELSE IF x.value_score > Head(sorted).value_score
         THEN <<x>> \o sorted
         ELSE <<Head(sorted)>> \o InsertByScore(x, Tail(sorted))

\* sorted(filtered_data, key=value_score, reverse=True): a new list
RECURSIVE SortedByScore(_)
SortedByScore(items) ==
    IF items = <<>> THEN <<>>
    ELSE InsertByScore(items[Len(items)],
                       SortedByScore(SubSeq(items, 1, Len(items) - 1)))

RECURSIVE AppendNew(_, _)
AppendNew(selected, ids) ==
    IF ids = <<>> THEN selected
    ELSE AppendNew(IF InSeq(selected, Head(ids)) THEN selected
                   ELSE Append(selected, Head(ids)),
                   Tail(ids))

\* "Best Deals" button: writes value_score into every filtered listing,
\* puts the ten best that are not selected yet into the cart, repopulates
SelectBestDeals ==
    /\ UserCanAct
    /\ LET filtered == GetFilteredData(catalog, filters).items
           scored == Scored(catalog, {filtered[i].id : i \in DOMAIN filtered})
           deals == FirstRows(SortedByScore(
                        GetFilteredData(scored, filters).items), BestDeals)
           ids == [i \in DOMAIN deals |-> deals[i].id]
           fresh == SelectSeq(ids, LAMBDA i : ~InSeq(selected_numbers, i))
       IN /\ selected_numbers' = AppendNew(selected_numbers, ids)
          /\ cart' = cart \o fresh
          /\ catalog' = PopulatedCatalog(scored, filters)
          /\ view' = PopulatedView(scored, filters)
    /\ op' = "_select_best_deals"
    /\ UNCHANGED <<providers, filters>>
    /\ UNCHANGED frameOfFilter

\* the listings _generate_marketplace_data may issue for listing id i; the
\* fields no criterion reads are held at one value per listing, and the
\* first listing at one service and one provider
ListingsOf(i) ==
    {p \in [id : {i},
            service : IF i = 1 THEN {"Telegram"} ELSE Services,
            country : Countries,
            provider : IF i = 1 THEN {"5SIM"} ELSE ProviderNames,
            price : Prices,
            success_rate : {IF i = 1 THEN 85 ELSE 99},
            avg_time : {IF i = 1 THEN 30 ELSE 180},
            quality_score : {IF i = 1 THEN 100 ELSE 70},
            value_score : {NoScore}] : TRUE}

\* the marketplace tab after __init__: the catalog as generated, sorted by
\* price, shown with every criterion "all", a price range that holds every
\* price, sorted by price
InitFilter ==
    /\ InitMonitoringOff
    /\ InitNoGuard
    /\ InitNoBackup
    /\ InitNoAuth
    /\ catalog \in {c \in [Listings -> UNION {ListingsOf(i) : i \in Listings}] :
                      /\ \A i \in Listings : c[i].id = i
                      /\ \A i, j \in Listings :
                            i <= j => c[i].price <= c[j].price}
    /\ providers = [i \in Listings |-> catalog[i].price]
    /\ filters = [service |-> "all", country |-> <<"all">>,
                  price_min |-> "1", price_max |-> "2", provider |-> "all",
                  sort |-> "price"]
    /\ view = PopulatedView(catalog, filters)
    /\ cart = <<>>
    /\ selected_numbers = <<>>
    /\ balance = 0
    /\ owned_numbers = <<>>
    /\ numbers_file = NoFile
    /\ runs = [r \in RunIds |-> NoRun]
    /\ after_queue = <<>>
    /\ main_pc = "idle"
    /\ op = "init"

NextFilter ==
    \/ \E v \in {"all", "Telegram"} :
          ApplyFilters([filters EXCEPT !.service = v])
    \/ \E v \in {<<"all">>, <<"US", "United", "States">>} :
          ApplyFilters([filters EXCEPT !.country = v])
    \/ \E v \in PriceEntries :
          ApplyFilters([filters EXCEPT !.price_min = v])
    \/ \E v \in PriceEntries :
          ApplyFilters([filters EXCEPT !.price_max = v])
    \/ \E v \in {"all", "5SIM"} :
          ApplyFilters([filters EXCEPT !.provider = v])
    \/ \E v \in SortKeys :
          ApplyFilters([filters EXCEPT !.sort = v])
    \/ \E key \in ColumnKeys : SortByColumn(key)

SpecFilter == InitFilter /\ [][NextFilter]_vars

\* The marketplace tab with its "Best Deals" button, over the catalogs of
\* one service and one provider
InitDeals ==
    /\ InitFilter
    /\ \A i \in Listings :
          catalog[i].service = "Telegram" /\ catalog[i].provider = "5SIM"
    /\ catalog[1].country.flag = "US"

NextDeals ==
    \/ NextFilter
    \/ SelectBestDeals

SpecDeals == InitDeals /\ [][NextDeals]_vars

\* ------------------------------------------------------- backup scheduler
LoopIds == 1..MaxLoops
Intervals == 0..MaxInterval

\* Thread.is_alive()
IsAlive(loop) == loop.pc \notin {"none", "done"}

\* self._backup_thread and self._backup_thread.is_alive()
BackupThreadAlive ==
    backup_thread # 0 /\ IsAlive(backup_loops[backup_thread])

frameOfBackup == <<providers, cart, selected_numbers, balance, owned_numbers,
                   numbers_file, runs, after_queue, main_pc, op, now,
                   monitoring_numbers, monitoring_active, mon, sms_table,
                   sms_codes, emitted, poll_interval_var, guardVars,
                   filterVars, authVars>>

\* start_backup_scheduler(interval_sec): returns when the thread is alive,
\* else clears the event and starts a new thread on _backup_loop
StartBackupScheduler(interval_sec) ==
    /\ sched_pc = "idle"
    /\ IF BackupThreadAlive
       THEN UNCHANGED <<backup_loops, backup_thread, stop_event>>
       ELSE /\ stop_event' = FALSE
            /\ \E t \in LoopIds :
                 /\ ~IsAlive(backup_loops[t])
                 /\ \A u \in LoopIds : u < t => IsAlive(backup_loops[u])
                 /\ backup_loops' =
                       [backup_loops EXCEPT ![t] =
                          [pc |-> "test", interval |-> interval_sec,
                           left |-> 0]]
                 /\ backup_thread' = t
    /\ last_call' = "start"
    /\ UNCHANGED <<backups, sched_pc>>
    /\ UNCHANGED frameOfBackup

\* stop_backup_scheduler, up to the join: sets the event; with a thread
\* alive it waits in join(timeout=2)
StopBackupScheduler ==
    /\ sched_pc = "idle"
    /\ stop_event' = TRUE
    /\ sched_pc' = IF BackupThreadAlive THEN "join" ELSE "idle"
    /\ last_call' = "stop"
    /\ UNCHANGED <<backup_loops, backup_thread, backups>>
    /\ UNCHANGED frameOfBackup

\* join(timeout=2) returns: the thread has ended, or two seconds are over;
\* a sleeping loop looks at the event every second, so only a round of
\* backup_all_sessions outlasts the two seconds
JoinReturns ==
    /\ sched_pc = "join"
    /\ \/ ~BackupThreadAlive
       \/ backup_loops[backup_thread].pc = "backup"
    /\ sched_pc' = "idle"
    /\ UNCHANGED <<backup_loops, backup_thread, stop_event, backups,
                   last_call>>
    /\ UNCHANGED frameOfBackup

\* _backup_loop, "while not self._stop_event.is_set()"
LoopTest(t) ==
    /\ backup_loops[t].pc = "test"
    /\ backup_loops' = [backup_loops EXCEPT ![t].pc =
                          IF stop_event THEN "done" ELSE "backup"]
    /\ UNCHANGED <<backup_thread, stop_event, backups, last_call, sched_pc>>
    /\ UNCHANGED frameOfBackup

\* _backup_loop: backup_all_sessions() has run, the sleep loop begins
LoopBackup(t) ==
    /\ backup_loops[t].pc = "backup"
    /\ backups' = IF backups < MaxBackups THEN backups + 1 ELSE backups
    /\ backup_loops' = [backup_loops EXCEPT
                          ![t].pc = "sleep",
                          ![t].left = backup_loops[t].interval]
    /\ UNCHANGED <<backup_thread, stop_event, last_call, sched_pc>>
    /\ UNCHANGED frameOfBackup

\* _backup_loop, one turn of "for _ in range(int(interval_sec))": leaves
\* the for loop when the range is used up or the event is set, else sleeps
\* one second
LoopChunk(t) ==
    /\ backup_loops[t].pc = "sleep"
    /\ backup_loops' =
          IF backup_loops[t].left = 0 \/ stop_event
          THEN [backup_loops EXCEPT ![t].pc = "test", ![t].left = 0]
          ELSE [backup_loops EXCEPT ![t].left = backup_loops[t].left - 1]
    /\ UNCHANGED <<backup_thread, stop_event, backups, last_call, sched_pc>>
    /\ UNCHANGED frameOfBackup

NextBackup ==
    \/ \E interval_sec \in Intervals : StartBackupScheduler(interval_sec)
    \/ StopBackupScheduler
    \/ JoinReturns
    \/ \E t \in LoopIds : LoopTest(t)
    \/ \E t \in LoopIds : LoopBackup(t)
    \/ \E t \in LoopIds : LoopChunk(t)

\* a process that has made a SessionGuard and nothing else
InitBackup == InitGuard /\ telethon /\ environ = "unset"

SpecBackup == InitBackup /\ [][NextBackup]_vars

\* ---------------------------------------------------------------- login
\* what is typed into the two entries of the login window
Usernames == {"", "admin", "eve"}
Passwords == {"", "password123!", "guess"}

\* _hash_password: a digest that tells the passwords apart
HashPassword(password) == <<"sha256", password>>

\* self.valid_credentials
ValidCredentials == [u \in {"admin"} |-> HashPassword("password123!")]

\* (datetime.now() - self.last_failed_attempt).seconds: the seconds of the
\* difference without its days
TimeDiff(t, last) == (t - last) % DayLength

IsLockedOut_open ==
    /\ login_attempts > MaxAttempts
    /\ last_failed_attempt # Never
    /\ TimeDiff(auth_clock, last_failed_attempt) < LockoutTime

\* is_locked_out()
IsLockedOut ==
    /\ login_attempts >= MaxAttempts
    /\ last_failed_attempt # Never
    /\ TimeDiff(auth_clock, last_failed_attempt) < LockoutTime

frameOfAuth == <<providers, cart, selected_numbers, balance, owned_numbers,
                 numbers_file, runs, after_queue, main_pc, now,
                 monitoring_numbers, monitoring_active, mon, sms_table,
                 sms_codes, emitted, poll_interval_var, guardVars,
                 filterVars, backupVars>>

\* authenticate(username, password)
Authenticate(u, p) ==
    IF IsLockedOut
    THEN /\ auth_call' = [made |-> TRUE, username |-> u, password |-> p,
                          result |-> FALSE]
         /\ UNCHANGED <<authenticated, username, login_attempts,
                        last_failed_attempt>>
    ELSE IF u \in DOMAIN ValidCredentials
            /\ ValidCredentials[u] = HashPassword(p)
         THEN /\ authenticated' = TRUE
              /\ username' = u
              /\ login_attempts' = 0
              /\ auth_call' = [made |-> TRUE, username |-> u,
                               password |-> p, result |-> TRUE]
              /\ UNCHANGED last_failed_attempt
         ELSE /\ login_attempts < MaxLogins
              /\ login_attempts' = login_attempts + 1
              /\ last_failed_attempt' = auth_clock
              /\ auth_call' = [made |-> TRUE, username |-> u,
                               password |-> p, result |-> FALSE]
              /\ UNCHANGED <<authenticated, username>>

\* SimpleAuthTest.login: the entries go straight to authenticate
Login(u, p) ==
    /\ Authenticate(u, p)
    /\ op' = "authenticate"
    /\ UNCHANGED auth_clock
    /\ UNCHANGED frameOfAuth

\* LoginWindow.attempt_login: returns while locked out or with an empty
\* entry, else calls authenticate
AttemptLogin(u, p) ==
    /\ IF IsLockedOut \/ u = "" \/ p = ""
       THEN /\ op' = "attempt_login:refused"
            /\ UNCHANGED <<authenticated, username, login_attempts,
                           last_failed_attempt, auth_call>>
       ELSE /\ Authenticate(u, p)
            /\ op' = "authenticate"
    /\ UNCHANGED auth_clock
    /\ UNCHANGED frameOfAuth

\* time passes
AuthTick ==
    /\ auth_clock < MaxClock
    /\ auth_clock' = auth_clock + 1
    /\ op' = Quiet
    /\ UNCHANGED <<authenticated, username, login_attempts,
                   last_failed_attempt, auth_call>>
    /\ UNCHANGED frameOfAuth

NextAuth ==
    \/ \E u \in Usernames : \E p \in Passwords : Login(u, p)
    \/ \E u \in Usernames : \E p \in Passwords : AttemptLogin(u, p)
    \/ AuthTick

\* a process that has made an AuthenticationManager and nothing else
InitAuth == InitGuard /\ telethon /\ environ = "unset"

SpecAuth == InitAuth /\ [][NextAuth]_vars



\* ============================================================ properties

\* C1: in every reachable state the wallet balance is >= 0.
C1_BalanceNeverNegative == balance >= 0

\* a run has debited the whole balance
C1_Witness ==
    /\ balance = 0
    /\ \E r \in RunIds : runs[r].pc # "none" /\ runs[r].spent > 0

\* the ledger operations of a run: the debit of the total, nothing else
RunLedgerDelta(r) == 0 - runs[r].spent

\* C2: once a run has finished, its total ledger delta is minus the sum
\* of the prices of the items that succeeded (failed items net to zero).
C2_RunDeltaIsSucceededTotal ==
    \A r \in RunIds :
        runs[r].pc = "done" =>
            RunLedgerDelta(r) = 0 - SumOwnedPrice(Report(r).succeeded)

\* C3: the finished report has len(succeeded) + len(failed) = len(cart).
C3_ReportCoversCart ==
    \A r \in RunIds :
        runs[r].pc = "done" =>
            Len(Report(r).succeeded) + Len(Report(r).failed)
                = Len(runs[r].cart0)

CheckoutOps == {"_checkout:insufficient", "_checkout:topup",
                "_checkout:confirm"}

RunStarts == \E r \in RunIds : runs[r].pc = "none" /\ runs'[r].pc # "none"

C9_FailedItemIsRefunded ==
    [][ \A r \in RunIds :
          (/\ runs[r].pc = "item"
           /\ runs'[r].pc = "next"
           /\ runs'[r].purchased = runs[r].purchased)
          => /\ balance' = balance + providers[runs[r].cur]
             /\ owned_numbers' = owned_numbers ]_vars


\* ------------------------------------------------------ inventory statuses
LegalTransitions ==
    {<<"active", "telegram_ready">>, <<"active", "used">>,
     <<"telegram_ready", "used">>}
        \cup {<<s, "expired">> : s \in Statuses}

MarkOps ==
    {"_mark_telegram_ready", "_mark_selected_used", "_create_telegram_account"}

\* C10: every status change made by mark-telegram-ready, mark-used or
\* create-telegram-account is active -> telegram_ready, active -> used,
\* telegram_ready -> used or any -> expired; a used number never becomes
\* telegram_ready or active again
C10_OnlyLegalTransitions ==
    [][op' \in MarkOps =>
         \A i \in DOMAIN owned_numbers :
            owned_numbers'[i].status # owned_numbers[i].status =>
               <<owned_numbers[i].status, owned_numbers'[i].status>>
                   \in LegalTransitions]_vars

\* ------------------------------------------------------- monitoring claims
\* dedupeKey of a code: the number, the code and the time bucket of its
\* received_at, a bucket being one tick of the clock
DedupeKey(c) == <<c.number, c.activation_id, c.code, c.received_at>>

KeysOnce(codes) ==
    \A i, j \in DOMAIN codes :
        i # j => DedupeKey(codes[i]) # DedupeKey(codes[j])

C7_StopWhenStoppedIsNoOp ==
    [][op' = "_stop_sms_monitoring:stopped" =>
          UNCHANGED <<monitoring_active, monitoring_numbers, mon, sms_table,
                      sms_codes, emitted, after_queue, owned_numbers,
                      numbers_file>>]_vars

\* Stop, called when an earlier Stop had ended a monitoring that had
\* delivered a code
C7_Witness ==
    /\ op = "_stop_sms_monitoring:stopped"
    /\ ~monitoring_active
    /\ monitoring_numbers # {}
    /\ emitted # <<>>

\* C11: a mark operation on a number whose status is expired is rejected
\* and leaves the inventory, in memory and on disk, as it was
C11_ExpiredIsTerminal ==
    [][op' \in MarkOps =>
         \A i \in DOMAIN owned_numbers :
            owned_numbers[i].status = "expired" =>
               /\ i \in DOMAIN owned_numbers'
               /\ owned_numbers'[i] = owned_numbers[i]
               /\ numbers_file' = numbers_file]_vars

\* a step of process_items or of _purchase_single_item that acquired a number
PurchaseStep ==
    \/ \E item \in Listings : PurchaseSingleItem(item)
    \/ \E r \in RunIds : WorkerItem(r)

\* C12: an owned number comes into being only by a successful purchase
\* step and with status active: whatever a step adds to the inventory, at
\* its end or as a number the inventory did not hold, is active and was
\* added by a purchase; so a telegram_ready or used number was active before
C12_CreatedActiveByPurchase ==
    [][\A i \in DOMAIN owned_numbers' :
          (\/ i > Len(owned_numbers)
           \/ ~\E j \in DOMAIN owned_numbers :
                  SameNumber(owned_numbers[j], owned_numbers'[i]))
          => /\ owned_numbers'[i].status = "active"
             /\ owned_numbers'[i].last_used = Never
             /\ PurchaseStep]_vars

\* a purchased number that was marked used since
C12_Witness ==
    /\ op = "_mark_selected_used"
    /\ \E i \in DOMAIN owned_numbers : owned_numbers[i].status = "used"

C14_NumberIdsDistinct ==
    \A i, j \in DOMAIN owned_numbers :
        i # j =>
          owned_numbers[i].activation_id # owned_numbers[j].activation_id

\* C15: when a step has changed the owned numbers in memory (a number
\* added by a purchase, a status set, a number removed), owned_numbers.json
\* equals the list in memory at the end of that step
C15_WriteThrough ==
    [][owned_numbers' # owned_numbers =>
          numbers_file' = SaveOwnedNumbers(owned_numbers')]_vars

\* --------------------------------------------------------- ledger claims
\* credits and debits as the handlers hand them to the wallet
LedgerOps ==
    {"_quick_topup", "_checkout:topup", "_process_purchase",
     "_purchase_single_item"}

C19_LogoutDeniedByDefault ==
    [][(\E c \in Callers : guard[c].result = "True") =>
          /\ (op' \in {"log_out:original", "log_out:raised"} /\ environ # "1")
                => op' = "log_out:raised"
          /\ op' = "log_out:original" => environ = "1"]_vars

\* a guarded call refused although the variable was set, to another value
C19_Witness ==
    /\ \E c \in Callers : guard[c].result = "True"
    /\ op = "log_out:raised"
    /\ environ = "true"
    /\ log_out = "guarded_log_out"

RunEvents(r) ==
    SelectSeq(after_queue,
              LAMBDA e : e.type \in {"progress", "results"} /\ e.run = r)

\* C21: a run processes the items of its cart in cart order, one at a time
\* (the item its worker takes as its k-th is the k-th item of the cart the
\* run was started for), and its events wait for the presentation layer in
\* that order: progress percentages never decrease and no progress event
\* follows the result event.
C21_ItemsAndEventsInCartOrder ==
    /\ \A r \in RunIds :
          runs[r].pc = "item" =>
              /\ runs[r].idx <= Len(runs[r].cart0)
              /\ runs[r].cur = runs[r].cart0[runs[r].idx]
    /\ \A r \in RunIds :
          \A i, j \in DOMAIN RunEvents(r) :
              i < j =>
                  /\ RunEvents(r)[i].type = "progress"
                  /\ RunEvents(r)[j].type = "progress" =>
                        RunEvents(r)[i].p <= RunEvents(r)[j].p

\* a step of the monitoring scheduler: Watch, Unwatch, Start, Stop, a step
\* of a worker's cycle, the delivery of a code to the display or the popup
SchedulerStep ==
    \/ monitoring_numbers' # monitoring_numbers
    \/ monitoring_active' # monitoring_active
    \/ mon' # mon
    \/ sms_table' # sms_table
    \/ sms_codes' # sms_codes
    \/ emitted' # emitted
    \/ after_queue' # after_queue
    \/ op' \in {"_start_sms_monitoring", "_stop_sms_monitoring",
                "_stop_sms_monitoring:stopped"}

\* C22: no step of the monitoring scheduler changes the inventory: the
\* owned numbers, their statuses and fields, and the file stay as they are.
C22_SchedulerLeavesInventory ==
    [][SchedulerStep =>
          /\ owned_numbers' = owned_numbers
          /\ numbers_file' = numbers_file]_vars

\* a code of a number still owned was journalled, displayed and notified
C22_Witness ==
    /\ sms_codes # <<>>
    /\ sms_table # <<>>
    /\ after_queue = <<>>
    /\ \E i \in DOMAIN owned_numbers :
          /\ owned_numbers[i].number = sms_codes[1].number
          /\ owned_numbers[i].status = "active"

C24_FilterAndSortLeaveCatalog ==
    [][op' \in {"_populate_marketplace", "_sort_by_column",
                "_select_best_deals"} => catalog' = catalog]_vars

\* a listing meets every active criterion of the filter panel: service,
\* country and provider equal the choice or the choice is "all"; the price
\* lies between the two bounds, both included, unless a bound is no number
MatchesCriteria(p, f) ==
    /\ f.service = "all" \/ p.service = f.service
    /\ f.country = <<"all">> \/ CountryLabel(p.country) = f.country
    /\ f.provider = "all" \/ p.provider = f.provider
    /\ \/ f.price_min \notin {"1", "2"}
       \/ f.price_max \notin {"1", "2"}
       \/ Float(f.price_min) <= p.price /\ p.price <= Float(f.price_max)

\* C25: the rows shown are exactly the listings of the catalog that meet
\* every active criterion, each once; a price text that is no number
\* switches the price criterion off and leaves the others in force
C25_FilterReturnsExactlyTheMatches ==
    LET matching == {i \in DOMAIN catalog :
                        MatchesCriteria(catalog[i], filters)}
    IN /\ {view[i] : i \in DOMAIN view} = {catalog[i].id : i \in matching}
       /\ Len(view) = Cardinality(matching)

\* the handlers that end with _save_owned_numbers of the list in memory
SavingOps == MarkOps \cup {"_delete_selected_number"}

C28_SchedulerRunsAfterStart ==
    /\ Cardinality({t \in LoopIds : IsAlive(backup_loops[t])}) <= 1
    /\ last_call = "start" =>
          \E t \in LoopIds : IsAlive(backup_loops[t])

\* the lockout is in force: max_attempts or more failures are counted and
\* less than the lockout time has passed since the last one
LockoutInForce ==
    /\ login_attempts >= MaxAttempts
    /\ last_failed_attempt # Never
    /\ auth_clock - last_failed_attempt < LockoutTime

ValidLogin(call) == call.username = "admin" /\ call.password = "password123!"

\* C30: an authenticate call made while the lockout is in force returns
\* False, whatever the credentials, and leaves authenticated,
\* login_attempts and last_failed_attempt as they were; a call that returns
\* True sets login_attempts to 0; authenticated turns True only in a call
\* with the valid credentials made while no lockout is in force
C30_LockoutHolds ==
    [][op' = "authenticate" =>
          /\ LockoutInForce =>
                /\ ~auth_call'.result
                /\ UNCHANGED <<authenticated, login_attempts,
                               last_failed_attempt>>
          /\ auth_call'.result => login_attempts' = 0
          /\ authenticated' /\ ~authenticated =>
                ValidLogin(auth_call') /\ ~LockoutInForce]_vars

C30_Witness ==
    /\ op = "authenticate"
    /\ LockoutInForce
    /\ login_attempts = MaxAttempts
    /\ ValidLogin(auth_call)
    /\ ~auth_call.result
    /\ ~authenticated

\* C29: however often enable_logout_protection has been called,
\* TelegramClient._orig_log_out is unset or the original log_out, never
\* the guard
C29_OrigLogOutIsTheOriginal == orig_log_out \in {"unset", "log_out"}

====
